---------------------------- MODULE Spec2Model ----------------------------
(***************************************************************************)
(* A model of app/utils/chatbot.py: the response function get_response and *)
(* the chat cycle chat.  One chat cycle is one call of chat(chat_history,  *)
(* vectordb) by the hosting page.  The call blocks inside chain.invoke,    *)
(* so a cycle that has a question is two steps: the submission (the input  *)
(* is read and the pipeline is invoked) and the pipeline's outcome (its    *)
(* answer, or its failure) followed by everything chat does after it.      *)
(* get_response builds the pipeline anew in every such cycle, before it    *)
(* invokes it; when that fails the cycle ends before any invocation.       *)
(*                                                                         *)
(* Python values: None is the empty tuple and a present value x is <<x>>;  *)
(* a message is [type, content] with the type tag langchain gives it; a    *)
(* retrieved document is [metadata |-> m] with m a record that has the     *)
(* keys the document carries; a dict is the sequence of its <<key, value>> *)
(* items in insertion order.                                               *)
(***************************************************************************)
EXTENDS Integers, Sequences, FiniteSets, TLC

VARIABLES
    history,      \* the list the caller holds and passes to chat as chat_history
    initial,      \* the history the caller started with
    pc,           \* "idle", "awaiting" (blocked in chain.invoke) or "raised"
    user_query,   \* what st.chat_input returned in this cycle
    arg,          \* contents of the list passed to this cycle, when it was passed
    arg_now,      \* contents of that same list object now
    invoke_args,  \* the dict handed to chain.invoke in this cycle, or None
    invocations,  \* the calls of chain.invoke made in this cycle
    response,     \* what chain.invoke returned in this cycle, or None
    returned,     \* what chat returned in this cycle, or None
    sidebar,      \* the lines written to st.sidebar in this cycle
    rendered,     \* the chat messages written to the page in this cycle
    error         \* the exception this cycle raised, or "none"

vars == <<history, initial, pc, user_query, arg, arg_now, invoke_args,
          invocations, response, returned, sidebar, rendered, error>>

-----------------------------------------------------------------------------
(* Bounds of the model *)

\* Turns (question and answer) a conversation takes in Spec.
MaxTurns == 3
\* Documents the pipeline retrieves for one question in Spec.
MaxDocs == 1
\* Turns a conversation takes in SpecCite.
CiteTurns == 1
\* Documents the pipeline retrieves for one question in SpecCite.
CiteDocs == 3
\* Turns a conversation takes in SpecLong.
LongTurns == 7

\* The number of previous messages the comment in chat says the model uses.
ContextCap == 10

Sources == {"a", "b"}
Pages == {1, 2, 3}
WhitespaceOnly == {" "}
Questions == WhitespaceOnly \cup {"hi"}
Answers == {"yes", "no"}

-----------------------------------------------------------------------------
(* Python values *)

None == <<>>
Some(x) == <<x>>

HumanMessage(content) == [type |-> "human", content |-> content]
AIMessage(content) == [type |-> "ai", content |-> content]
SystemMessage(content) == [type |-> "system", content |-> content]

\* isinstance(message, AIMessage)
IsAIMessage(message) == message.type = "ai"

Document(metadata) == [metadata |-> metadata]

RECURSIVE SeqsUpTo(_, _)
SeqsUpTo(S, n) ==
    IF n = 0 THEN {<<>>}
    ELSE LET shorter == SeqsUpTo(S, n - 1)
         IN  shorter \cup {Append(s, x) : s \in {t \in shorter : Len(t) = n - 1}, x \in S}

\* The metadata a retrieved document can carry: both keys, or one of them missing.
Metadatas ==
    {[source |-> s, page |-> p] : s \in Sources, p \in Pages}
        \cup {[page |-> 1]} \cup {[source |-> "a"]}

Documents == {Document(m) : m \in Metadatas}

\* The histories a caller starts a conversation with.
InitialHistories ==
    {<<>>, <<AIMessage("hello")>>, <<SystemMessage("rules")>>}

\* What st.chat_input can return: None when nothing was submitted, else the text.
ChatInputs == {None, Some("")} \cup {Some(q) : q \in Questions}

-----------------------------------------------------------------------------
(* str, join and the f-strings of the side panel *)

Digit(d) ==
    CASE d = 0 -> "0" [] d = 1 -> "1" [] d = 2 -> "2" [] d = 3 -> "3"
      [] d = 4 -> "4" [] d = 5 -> "5" [] d = 6 -> "6" [] d = 7 -> "7"
      [] d = 8 -> "8" [] d = 9 -> "9"

RECURSIVE StrNat(_)
StrNat(n) == IF n < 10 THEN Digit(n) ELSE StrNat(n \div 10) \o Digit(n % 10)

\* str(page) for an integer page
Str(n) == IF n < 0 THEN "-" \o StrNat(-n) ELSE StrNat(n)

RECURSIVE Join(_, _)
\* sep.join(strs)
Join(sep, strs) ==
    IF strs = <<>> THEN ""
    ELSE IF Len(strs) = 1 THEN strs[1]
    ELSE strs[1] \o sep \o Join(sep, Tail(strs))

MapStr(pages) == [i \in 1..Len(pages) |-> Str(pages[i])]


-----------------------------------------------------------------------------
(* chat, lines 79-85: the citations of the side panel *)

\* metadata[key]: the value, or KeyError when the key is absent
Lookup(metadata, key) ==
    IF key \in DOMAIN metadata
    THEN [raised |-> FALSE, value |-> metadata[key]]
    ELSE [raised |-> TRUE, error |-> "KeyError"]

HasKey(d, key) == \E i \in 1..Len(d) : d[i][1] = key

\* As DefaultDictAppend, but a page its source already lists is not added again.
DefaultDictAppendUnique(d, key, value) ==
    IF HasKey(d, key)
    THEN [i \in 1..Len(d) |->
            IF d[i][1] = key /\ \A j \in 1..Len(d[i][2]) : d[i][2][j] # value
            THEN <<key, Append(d[i][2], value)>> ELSE d[i]]
    ELSE Append(d, <<key, <<value>>>>)

\* metadata_dict[key].append(value) on a defaultdict(list): an absent key is
\* inserted, last, with an empty list, and the value goes to the end of its list.
DefaultDictAppend(d, key, value) ==
    IF HasKey(d, key)
    THEN [i \in 1..Len(d) |->
            IF d[i][1] = key THEN <<key, Append(d[i][2], value)>> ELSE d[i]]
    ELSE Append(d, <<key, <<value>>>>)

RECURSIVE GroupLoop(_, _)
\* for metadata in [...]: metadata_dict[metadata['source']].append(metadata['page'])
GroupLoop(metadatas, d) ==
    IF metadatas = <<>> THEN [raised |-> FALSE, value |-> d]
    ELSE LET source == Lookup(Head(metadatas), "source")
             page == Lookup(Head(metadatas), "page")
         IN  IF source.raised THEN source
             ELSE IF page.raised THEN page
             ELSE GroupLoop(Tail(metadatas),
                            DefaultDictAppend(d, source.value, page.value))

\* [doc.metadata for doc in context]
MetadataOf(context) == [i \in 1..Len(context) |-> context[i].metadata]

\* As GroupCitations, but a document without a source or a page is skipped.
GroupCitationsGuarded(context) ==
    LET Complete(m) == "source" \in DOMAIN m /\ "page" \in DOMAIN m
    IN  GroupLoop(SelectSeq(MetadataOf(context), Complete), <<>>)

\* The metadata_dict the loop of lines 80-82 builds, or the KeyError it raises.
GroupCitations(context) == GroupLoop(MetadataOf(context), <<>>)

RECURSIVE SidebarLines(_)
\* for source, pages in metadata_dict.items(): the two st.write calls
SidebarLines(d) ==
    IF d = <<>> THEN <<>>
    ELSE << "Source: " \o d[1][1],
            "Pages: " \o Join(", ", MapStr(d[1][2])) >> \o SidebarLines(Tail(d))

-----------------------------------------------------------------------------
(* chat, lines 86-89: the transcript *)

\* As ChatMessageName, but testing for a human message instead.
ChatMessageNameByHuman(message) ==
    IF message.type = "human" THEN "Human" ELSE "AI"

\* "AI" if isinstance(message, AIMessage) else "Human"
ChatMessageName(message) == IF IsAIMessage(message) THEN "AI" ELSE "Human"

\* for message in chat_history: with st.chat_message(...): st.write(message.content)
Render(chat_history) ==
    [i \in 1..Len(chat_history) |->
        [name |-> ChatMessageName(chat_history[i]),
         body |-> chat_history[i].content]]

-----------------------------------------------------------------------------
(* get_response and the rest of chat *)

\* As HasInput, without the comparison with "".
HasInputNotNone(uq) == uq # None

\* user_query is not None and user_query != ""
HasInput(uq) == uq # None /\ uq[1] # ""

\* {"input": question, "chat_history": chat_history}
InvokeArgs(question, chat_history) ==
    [input |-> question, chat_history |-> chat_history]

\* As GetResponse, but a failure of the pipeline is caught and answered for.
GetResponseFallback(outcome) ==
    IF outcome.raised THEN [raised |-> FALSE, value |-> <<"sorry", <<>>>>]
    ELSE [raised |-> FALSE,
          value |-> <<outcome.value.answer, outcome.value.context>>]

\* get_response around chain.invoke: no try, so a failure of the pipeline is
\* get_response's failure; else the pair response["answer"], response["context"].
GetResponse(outcome) ==
    IF outcome.raised THEN outcome
    ELSE [raised |-> FALSE,
          value |-> <<outcome.value.answer, outcome.value.context>>]

\* As NewMessages, with the answer before the question.
NewMessagesSwapped(question, answer) ==
    <<AIMessage(answer), HumanMessage(question)>>

\* As NewMessages, without the answer.
NewMessagesQuestionOnly(question, answer) == <<HumanMessage(question)>>

\* [HumanMessage(content=user_query), AIMessage(content=response)]
NewMessages(question, answer) == <<HumanMessage(question), AIMessage(answer)>>

\* As ListAdd, but extending the left operand in place (left += right).
ListAddInPlace(left, right) == [result |-> left \o right, left |-> left \o right]

\* left + right on lists: a new list; the left operand keeps its contents.
ListAdd(left, right) == [result |-> left \o right, left |-> left]

\* The caller keeps the history chat returns and passes it to the next cycle.
CallerStores(chat_history) == chat_history

TurnsTaken == (Len(history) - Len(initial)) \div 2

Init ==
    /\ history \in InitialHistories
    /\ initial = history
    /\ pc = "idle"
    /\ user_query = None
    /\ arg = history
    /\ arg_now = history
    /\ invoke_args = None
    /\ invocations = 0
    /\ response = None
    /\ returned = None
    /\ sidebar = <<>>
    /\ rendered = <<>>
    /\ error = "none"

\* A cycle in which line 73 finds no input: lines 72-73 and 86-90.
ChatNoInput(inputs) ==
    /\ pc \in {"idle", "raised"}
    /\ \E uq \in inputs :
        /\ ~HasInput(uq)
        /\ user_query' = uq
        /\ arg' = history
        /\ arg_now' = history
        /\ invoke_args' = None
        /\ invocations' = 0
        /\ response' = None
        /\ sidebar' = <<>>
        /\ rendered' = Render(history)
        /\ returned' = Some(history)
        /\ history' = CallerStores(history)
        /\ pc' = "idle"
        /\ error' = "none"
        /\ UNCHANGED initial

\* get_context_retriever_chain(vectordb), lines 21-41: the pipeline, or the
\* exception that load_dotenv, the model's constructor, vectordb.as_retriever
\* or a chain constructor raises.
ChainOutcomes == {[raised |-> FALSE], [raised |-> TRUE, error |-> "SetupError"]}

\* A cycle in which line 73 finds input and line 57 builds the pipeline:
\* lines 72-75 and 57-58, up to the call of chain.invoke, in which the cycle
\* blocks.
ChatSubmit(inputs, turns) ==
    /\ pc \in {"idle", "raised"}
    /\ TurnsTaken < turns
    /\ \E uq \in inputs, chain \in ChainOutcomes :
        /\ HasInput(uq)
        /\ ~chain.raised
        /\ user_query' = uq
        /\ arg' = history
        /\ arg_now' = history
        /\ invoke_args' = Some(InvokeArgs(uq[1], history))
        /\ invocations' = 1
        /\ response' = None
        /\ sidebar' = <<>>
        /\ rendered' = <<>>
        /\ returned' = None
        /\ pc' = "awaiting"
        /\ error' = "none"
        /\ UNCHANGED <<history, initial>>

\* An exception leaves chat: nothing is returned, written or rendered, and
\* the caller still holds the list it passed.
Raise(err, list_now) ==
    /\ pc' = "raised"
    /\ error' = err
    /\ arg_now' = list_now
    /\ history' = list_now
    /\ returned' = None
    /\ sidebar' = <<>>
    /\ rendered' = <<>>

\* A cycle in which line 73 finds input and line 57 fails to build the
\* pipeline: lines 72-75 and 57; the exception leaves get_response and chat
\* before chain.invoke is called.
ChainConstructionFails(inputs) ==
    /\ pc \in {"idle", "raised"}
    /\ \E uq \in inputs, chain \in ChainOutcomes :
        /\ HasInput(uq)
        /\ chain.raised
        /\ user_query' = uq
        /\ arg' = history
        /\ invoke_args' = None
        /\ invocations' = 0
        /\ response' = None
        /\ Raise(chain.error, history)
        /\ UNCHANGED initial

\* Lines 58-59 and 75-90 once chain.invoke has ended with outcome.
ChatResume(outcome) ==
    LET got == GetResponse(outcome)
    IN  /\ response' = IF outcome.raised THEN None ELSE Some(outcome.value)
        /\ UNCHANGED <<initial, user_query, arg, invoke_args, invocations>>
        /\ IF got.raised THEN Raise(got.error, arg_now)
           ELSE LET added == ListAdd(arg_now, NewMessages(user_query[1], got.value[1]))
                    chat_history == added.result
                    grouped == GroupCitations(got.value[2])
                IN  IF grouped.raised THEN Raise(grouped.error, added.left)
                    ELSE /\ sidebar' = SidebarLines(grouped.value)
                         /\ rendered' = Render(chat_history)
                         /\ returned' = Some(chat_history)
                         /\ arg_now' = added.left
                         /\ history' = CallerStores(chat_history)
                         /\ pc' = "idle"
                         /\ error' = "none"

\* chain.invoke returns {"answer": ..., "context": ...}.
PipelineAnswers(answers, contexts) ==
    /\ pc = "awaiting"
    /\ \E a \in answers, c \in contexts :
        ChatResume([raised |-> FALSE, value |-> [answer |-> a, context |-> c]])

\* chain.invoke raises (authentication, network, malformed response).
PipelineFails ==
    /\ pc = "awaiting"
    /\ ChatResume([raised |-> TRUE, error |-> "ChainError"])

\* The chat loop: conversations of MaxTurns turns, MaxDocs documents a turn.
Next ==
    \/ ChatNoInput(ChatInputs)
    \/ ChatSubmit(ChatInputs, MaxTurns)
    \/ ChainConstructionFails(ChatInputs)
    \/ PipelineAnswers(Answers, SeqsUpTo(Documents, MaxDocs))
    \/ PipelineFails

Spec == Init /\ [][Next]_vars

\* Citations: one question at a time, up to CiteDocs documents retrieved.
NextCite ==
    \/ ChatNoInput({None})
    \/ ChatSubmit({Some("hi")}, CiteTurns)
    \/ ChainConstructionFails({Some("hi")})
    \/ PipelineAnswers({"yes"}, SeqsUpTo(Documents, CiteDocs))
    \/ PipelineFails

SpecCite == Init /\ [][NextCite]_vars

\* Long conversations: LongTurns turns, nothing retrieved.
NextLong ==
    \/ ChatNoInput({None})
    \/ ChatSubmit({Some(q) : q \in Questions}, LongTurns)
    \/ ChainConstructionFails({Some(q) : q \in Questions})
    \/ PipelineAnswers({"yes"}, {<<>>})
    \/ PipelineFails

SpecLong == Init /\ [][NextLong]_vars

-----------------------------------------------------------------------------
(* Properties *)

\* The cycle took a question through the pipeline and chat returned.
ProcessedQuestion == returned # None /\ invocations = 1

\* C1: a cycle that processes question Q on history H returns H, its entries
\* unchanged and in order, followed by Human(Q), then AI(answer), and nothing
\* else; that is the history the caller then holds.
C1_AppendsExchange ==
    ProcessedQuestion =>
        /\ response # None
        /\ returned[1] =
             arg \o <<HumanMessage(user_query[1]), AIMessage(response[1].answer)>>
        /\ history = returned[1]

C1_Witness ==
    /\ ProcessedQuestion
    /\ Len(arg) = 3
    /\ arg[1] = SystemMessage("rules")
    /\ returned[1][4] = HumanMessage("hi")
    /\ returned[1][5] = AIMessage("no")

\* C2 as stated: a cycle whose input is absent, empty or only whitespace
\* invokes the pipeline zero times and leaves the history as it was passed.
C2_NoInvocationOnBlankInput ==
    (user_query = None \/ user_query[1] = "" \/ user_query[1] \in WhitespaceOnly) =>
        /\ invocations = 0
        /\ invoke_args = None
        /\ history = arg
        /\ returned \in {None, Some(arg)}

\* C2, amended: a cycle whose input is absent or the empty string invokes the
\* pipeline zero times, ends idle and returns the history it was passed.
C2_NoInvocationOnEmptyInput ==
    (user_query = None \/ user_query[1] = "") =>
        /\ invocations = 0
        /\ invoke_args = None
        /\ response = None
        /\ pc = "idle"
        /\ history = arg
        /\ arg_now = arg
        /\ returned \in {None, Some(arg)}

C2_Witness ==
    /\ user_query = Some("")
    /\ returned = Some(arg)
    /\ Len(arg) = 2
    /\ invocations = 0

\* C3: starting from an empty history, the history the caller holds has even
\* length and alternates human, assistant; after a cycle that processed a
\* question its last two entries are that question and the pipeline's answer
\* to it.
C3_Alternating ==
    initial = <<>> =>
        /\ Len(history) % 2 = 0
        /\ \A i \in 1..Len(history) :
             history[i].type = (IF i % 2 = 1 THEN "human" ELSE "ai")
        /\ ProcessedQuestion =>
             /\ history[Len(history) - 1] = HumanMessage(invoke_args[1].input)
             /\ history[Len(history)] = AIMessage(response[1].answer)

C3_Witness ==
    /\ initial = <<>>
    /\ Len(history) = 4
    /\ ProcessedQuestion
    /\ history[3].content # history[1].content
    /\ history[4].content # history[2].content

\* The pages of the documents of context whose source is s, in retrieval order.
PagesOfSource(context, s) ==
    LET FromS(doc) == doc.metadata.source = s
        docs == SelectSeq(context, FromS)
    IN  [i \in 1..Len(docs) |-> docs[i].metadata.page]

\* Document i is the first of context with its source.
FirstOfSource(context, i) ==
    \A j \in 1..(i - 1) : context[j].metadata.source # context[i].metadata.source

\* C4: when every retrieved document has a source and a page, the side panel
\* has one entry per distinct source, in order of first appearance, and the
\* entry lists the pages of the documents of that source in retrieval order,
\* one per document.
C4_CitationGrouping ==
    ProcessedQuestion =>
        LET context == response[1].context
            firsts == {i \in 1..Len(context) : FirstOfSource(context, i)}
        IN  /\ Len(sidebar) = 2 * Cardinality(firsts)
            /\ \A i \in firsts :
                 LET k == Cardinality({j \in firsts : j <= i})
                     s == context[i].metadata.source
                 IN  /\ sidebar[2 * k - 1] = "Source: " \o s
                     /\ sidebar[2 * k] =
                          "Pages: " \o Join(", ", MapStr(PagesOfSource(context, s)))

C4_Witness ==
    /\ ProcessedQuestion
    /\ response[1].context =
         << Document([source |-> "a", page |-> 1]),
            Document([source |-> "b", page |-> 2]),
            Document([source |-> "a", page |-> 3]) >>
    /\ sidebar = <<"Source: a", "Pages: 1, 3", "Source: b", "Pages: 2">>

\* C5: a cycle whose pipeline invocation failed ends with that failure: one
\* invocation was made, nothing is returned, written or rendered, and the
\* history the caller holds is the one it passed.
C5_PipelineFailurePropagates ==
    (invocations = 1 /\ pc # "awaiting" /\ response = None) =>
        /\ pc = "raised"
        /\ error = "ChainError"
        /\ returned = None
        /\ sidebar = <<>>
        /\ rendered = <<>>
        /\ arg_now = arg
        /\ history = arg

C5_Witness ==
    /\ error = "ChainError"
    /\ user_query = Some("hi")
    /\ Len(history) = 2

\* C6: the loop leaves idle only on a non-empty input, and starts to await a
\* response with one pipeline invocation (a cycle that is not awaiting makes
\* none); while it awaits, no input is read, no further
\* invocation is made and the history does not change; it is idle again only
\* with the response obtained and the history extended by the exchange.
C6_Step ==
    /\ (pc # "awaiting" /\ pc' = "awaiting") =>
         /\ user_query' # None
         /\ user_query'[1] # ""
         /\ invocations' = 1
         /\ history' = history
    /\ (pc = "idle" /\ pc' # "idle") =>
         /\ user_query' # None
         /\ user_query'[1] # ""
         /\ history' = history
    /\ (pc # "awaiting" /\ pc' # "awaiting") =>
         /\ invocations' = 0
         /\ history' = history
    /\ (pc # "awaiting" /\ (user_query' = None \/ user_query'[1] = "")) =>
         pc' = "idle"
    /\ pc = "awaiting" =>
         /\ pc' # "awaiting"
         /\ user_query' = user_query
         /\ invoke_args' = invoke_args
         /\ invocations = 1
         /\ invocations' = 1
    /\ (pc = "awaiting" /\ pc' = "idle") =>
         /\ response' # None
         /\ history' = history \o <<HumanMessage(user_query[1]),
                                    AIMessage(response'[1].answer)>>
    /\ (pc = "awaiting" /\ pc' # "idle") => history' = history

C6_TwoStates == [][C6_Step]_vars

C6_Witness ==
    /\ pc = "idle"
    /\ ProcessedQuestion
    /\ Len(history) = Len(initial) + 4

\* A document of context lacks the source key or the page key.
LacksKey(context) ==
    \E i \in 1..Len(context) :
        \/ "source" \notin DOMAIN context[i].metadata
        \/ "page" \notin DOMAIN context[i].metadata

\* C7: when the pipeline has answered and a retrieved document lacks the
\* source or the page key, the cycle ends with a KeyError: nothing is
\* returned, nothing is rendered.
C7_MissingKeyRaises ==
    (response # None /\ LacksKey(response[1].context)) =>
        /\ pc = "raised"
        /\ error = "KeyError"
        /\ invocations = 1
        /\ returned = None
        /\ rendered = <<>>
        /\ sidebar = <<>>
        /\ history = arg

C7_Witness ==
    /\ error = "KeyError"
    /\ response[1].context =
         << Document([source |-> "a", page |-> 1]),
            Document([source |-> "b", page |-> 2]),
            Document([source |-> "a"]) >>

\* C8: a cycle that returns renders the history it returns: one message per
\* entry, in order, with the entry's content, named AI for an assistant
\* message and Human otherwise; after a processed question the last two are
\* the question and its answer.
C8_RendersReturnedHistory ==
    returned # None =>
        /\ Len(rendered) = Len(returned[1])
        /\ \A i \in 1..Len(rendered) :
             /\ rendered[i].body = returned[1][i].content
             /\ rendered[i].name =
                  (IF returned[1][i].type = "ai" THEN "AI" ELSE "Human")
        /\ invocations = 1 =>
             /\ rendered[Len(rendered) - 1] =
                  [name |-> "Human", body |-> user_query[1]]
             /\ rendered[Len(rendered)] =
                  [name |-> "AI", body |-> response[1].answer]

C8_Witness ==
    /\ ProcessedQuestion
    /\ rendered = << [name |-> "Human", body |-> "rules"],
                     [name |-> "Human", body |-> " "],
                     [name |-> "AI", body |-> "yes"] >>

\* C9: the chat history handed to the pipeline holds at most ContextCap
\* messages.
C9_AtMostTenMessages ==
    invoke_args # None => Len(invoke_args[1].chat_history) <= ContextCap

\* C10: the pipeline is handed the question of this cycle and the history as
\* it was passed to the cycle, which never holds this cycle's exchange; the
\* list that was passed keeps its contents, and the history returned is that
\* list's contents and the exchange.
C10_InvokedWithPriorHistory ==
    /\ arg_now = arg
    /\ invoke_args # None =>
         /\ invoke_args[1].input = user_query[1]
         /\ invoke_args[1].chat_history = arg
         /\ ProcessedQuestion =>
              /\ Len(returned[1]) = Len(invoke_args[1].chat_history) + 2
              /\ SubSeq(returned[1], 1, Len(arg)) = invoke_args[1].chat_history

C10_Witness ==
    /\ ProcessedQuestion
    /\ Len(invoke_args[1].chat_history) = 2
    /\ invoke_args[1].input = " "
    /\ arg_now = arg

=============================================================================
